---- MODULE Spec2Model ----
(***************************************************************************)
(* Fixed-coupon bond valuation and risk engine (renta_fija/bonds.py).      *)
(*                                                                         *)
(* Dates are triples <<year, month, day>> of the proleptic Gregorian       *)
(* calendar; NaT is the missing date.  Floating-point values are modelled  *)
(* as exact rationals <<n, d>> (d > 0) tagged "num", or as "nan" / "inf".  *)
(* An optional scalar of a row is <<>> (NaN) or <<v>>.                     *)
(***************************************************************************)
EXTENDS Integers, Sequences, FiniteSets, TLC

VARIABLES row, curva, pc, dt, dates, cf_dates, cf_amounts, ytm, rf, rec, q, res

vars == <<row, curva, pc, dt, dates, cf_dates, cf_amounts, ytm, rf, rec, q, res>>

(***************************************************************************)
(* Bounds of the model.                                                    *)
(***************************************************************************)
\* Longest list the backward loop of build_cashflows may hold in the model.
MaxDates == 30
\* Largest number of pivots of a curve.
MaxPivots == 2
\* Largest number of entries of a schedule handed to the pricing functions.
MaxFlows == 2

(***************************************************************************)
(* Program constants.                                                      *)
(***************************************************************************)
\* year_fraction's default basis.
Basis == 365
\* build_cashflows' default notional.
Notional == 100
\* DEFAULT_VALUATION_DATE = 01/10/2025.
DEFAULT_VALUATION_DATE == <<2025, 10, 1>>

(***************************************************************************)
(* Missing values.                                                         *)
(***************************************************************************)
NaT == <<0, 0, 0>>
NaN == <<>>
isna(x) == x = NaT \/ x = NaN

(***************************************************************************)
(* datetime: ordinals, comparison and subtraction of whole months.         *)
(***************************************************************************)
IsLeap(y) == (y % 4 = 0 /\ y % 100 # 0) \/ y % 400 = 0

DaysInMonth(y, m) ==
  IF m = 2 THEN (IF IsLeap(y) THEN 29 ELSE 28)
  ELSE IF m \in {4, 6, 9, 11} THEN 30 ELSE 31

RECURSIVE DaysBeforeMonth(_, _)
DaysBeforeMonth(y, m) ==
  IF m = 1 THEN 0 ELSE DaysBeforeMonth(y, m - 1) + DaysInMonth(y, m - 1)

\* datetime.toordinal()
toordinal(d) ==
  LET y1 == d[1] - 1
  IN  y1 * 365 + (y1 \div 4) - (y1 \div 100) + (y1 \div 400)
        + DaysBeforeMonth(d[1], d[2]) + d[3]

\* (d2 - d1).days
days(d1, d2) == toordinal(d2) - toordinal(d1)

\* d - relativedelta(months=months): the month index moves back, the day is
\* clipped to the length of the month reached.
SubMonths(d, months) ==
  LET idx == d[1] * 12 + (d[2] - 1) - months
      y   == idx \div 12
      m   == (idx % 12) + 1
      dim == DaysInMonth(y, m)
  IN  <<y, m, IF d[3] < dim THEN d[3] ELSE dim>>

\* The list left as the loop built it, latest date first.
unsorted(s) == s

\* sorted(dates) for a list of datetimes: insertion of each element in turn.
RECURSIVE Insert(_, _)
Insert(s, d) ==
  IF s = <<>> THEN <<d>>
  ELSE IF toordinal(d) < toordinal(Head(s)) THEN <<d>> \o s
  ELSE <<Head(s)>> \o Insert(Tail(s), d)

RECURSIVE sorted(_)
sorted(s) == IF s = <<>> THEN <<>> ELSE Insert(sorted(Tail(s)), Head(s))

(***************************************************************************)
(* Exact rationals.                                                        *)
(***************************************************************************)
Abs(x) == IF x < 0 THEN -x ELSE x

RECURSIVE Gcd(_, _)
Gcd(a, b) == IF b = 0 THEN a ELSE Gcd(b, a % b)

\* n / d in lowest terms with a positive denominator (d # 0).
Rat(n, d) ==
  LET s == IF d < 0 THEN -1 ELSE 1
      g == Gcd(Abs(n), Abs(d))
  IN  <<(s * n) \div g, (s * d) \div g>>

\* Sums over the least common denominator, so that no intermediate product
\* leaves the machine integers.
RAdd(a, b) ==
  LET g == Gcd(a[2], b[2])
  IN  Rat(a[1] * (b[2] \div g) + b[1] * (a[2] \div g), (a[2] \div g) * b[2])

RNeg(a) == <<-a[1], a[2]>>
RSub(a, b) == RAdd(a, RNeg(b))

\* Products and quotients, cross-reduced before multiplying.
RMul(a, b) ==
  LET x == Rat(a[1], b[2])
      y == Rat(b[1], a[2])
  IN  <<x[1] * y[1], x[2] * y[2]>>

RDiv(a, b) == RMul(a, Rat(b[2], b[1]))

RSign(a) == IF a[1] > 0 THEN 1 ELSE IF a[1] < 0 THEN -1 ELSE 0

\* a < b for n1/d1 and n2/d2, by the Euclidean expansion (no products).
RECURSIVE FracLess(_, _, _, _)
FracLess(n1, d1, n2, d2) ==
  LET q1 == n1 \div d1
      q2 == n2 \div d2
      r1 == n1 % d1
      r2 == n2 % d2
  IN  IF q1 # q2 THEN q1 < q2
      ELSE IF r2 = 0 THEN FALSE
      ELSE IF r1 = 0 THEN TRUE
      ELSE FracLess(d2, r2, d1, r1)

RLess(a, b) == FracLess(a[1], a[2], b[1], b[2])
RLeq(a, b) == ~RLess(b, a)

RECURSIVE RPow(_, _)
RPow(b, k) == IF k = 0 THEN <<1, 1>> ELSE RMul(b, RPow(b, k - 1))

(***************************************************************************)
(* Floating-point results: a number, nan, inf with a sign, or the          *)
(* ValueError a library call raised.                                       *)
(***************************************************************************)
Num(r) == [k |-> "num", v |-> r]
NaNf == [k |-> "nan", v |-> <<0, 1>>]
Inf(s) == [k |-> "inf", v |-> <<s, 1>>]
ValueError == [k |-> "raise", v |-> <<0, 1>>]

\* pd.isna on a float
isnan(x) == x.k = "nan"

\* numpy's x / p for a finite x: inf or nan at p = 0, never an exception.
FDiv(x, p) ==
  IF p[1] = 0 THEN (IF x[1] = 0 THEN NaNf ELSE Inf(RSign(x)))
  ELSE Num(RDiv(x, p))

(***************************************************************************)
(* build_cashflows (bonds.py 35-77), one step of the loop at a time.       *)
(***************************************************************************)
\* The test of the while loop.
LoopCondGe(d, val_date, first_coupon) ==
  toordinal(d) >= toordinal(val_date) /\ toordinal(d) >= toordinal(first_coupon)

LoopCond(d, val_date, first_coupon) ==
  toordinal(d) > toordinal(val_date) /\ toordinal(d) >= toordinal(first_coupon)

\* coupon_per_period = notional * (Coupon / 100) / freq
CouponPerPeriod(notional, coupon, freq) == Rat(notional * coupon, 100 * freq)

\* [coupon_per_period] * len(dates), the notional added to the last entry.
Cashflows(n, cpp, notional) ==
  [i \in 1..n |-> IF i = n THEN RAdd(cpp, <<notional, 1>>) ELSE cpp]

\* Lines 51-62: the conversions, the degenerate returns, the loop's set-up.
\* int(NaN) raises ValueError; a Python float divided by the int 0 raises
\* ZeroDivisionError, a numpy float64 gives inf or nan and goes on.
Enter ==
  /\ pc = "start"
  /\ IF isna(row.Frequency) THEN
       /\ pc' = "raised"
       /\ UNCHANGED <<dt, dates, cf_dates, cf_amounts>>
     ELSE IF row.Frequency[1] = 0 /\ ~row.npScalar THEN
       /\ pc' = "raised"
       /\ UNCHANGED <<dt, dates, cf_dates, cf_amounts>>
     ELSE IF isna(row.Maturity) \/ isna(row.FirstCoupon) \/ row.Frequency[1] <= 0 THEN
       /\ pc' = "built"
       /\ cf_dates' = <<>>
       /\ cf_amounts' = <<>>
       /\ UNCHANGED <<dt, dates>>
     ELSE
       /\ pc' = "loop"
       /\ dt' = row.Maturity
       /\ dates' = <<>>
       /\ UNCHANGED <<cf_dates, cf_amounts>>
  /\ UNCHANGED <<row, curva, ytm, rf, rec, q, res>>

\* Lines 65-67: one iteration of the loop.  The list is followed up to
\* MaxDates entries, which is more than any schedule of the bonds modelled
\* holds; only a loop that does not move dt reaches that length.
LoopStep ==
  /\ pc = "loop"
  /\ LoopCond(dt, DEFAULT_VALUATION_DATE, row.FirstCoupon)
  /\ Len(dates) < MaxDates
  /\ dates' = Append(dates, dt)
  /\ dt' = SubMonths(dt, 12 \div row.Frequency[1])
  /\ UNCHANGED <<row, curva, pc, cf_dates, cf_amounts, ytm, rf, rec, q, res>>

\* Lines 65, 69-77: the loop ends; the dates are sorted and the amounts built.
LoopExit ==
  /\ pc = "loop"
  /\ ~LoopCond(dt, DEFAULT_VALUATION_DATE, row.FirstCoupon)
  /\ pc' = "built"
  /\ cf_dates' = sorted(dates)
  /\ cf_amounts' =
       IF dates = <<>> THEN <<>>
       ELSE Cashflows(Len(dates),
                      CouponPerPeriod(Notional, row.Coupon, row.Frequency[1]),
                      Notional)
  /\ UNCHANGED <<row, curva, dt, dates, ytm, rf, rec, q, res>>

(***************************************************************************)
(* Curve interpolation (bonds.py 11-32, 137-157).  A pivot of the curve is *)
(* [t, Discount, ZeroRate]; t and every year fraction are kept as a number *)
(* of days over the basis, which leaves np.interp's result unchanged.      *)
(***************************************************************************)
\* year_fraction(d1, d2) * basis
year_fraction(d1, d2) == days(d1, d2)

\* The last index j with xp[j] <= x (xp non-decreasing, xp[1] <= x).
LastAtMost(x, xp) ==
  CHOOSE j \in 1..Len(xp) :
    /\ xp[j] <= x
    /\ \A i \in 1..Len(xp) : xp[i] <= x => i <= j

\* np.interp(x, xp, fp) for a scalar x: ValueError on empty sample points,
\* the end values outside the range, the line between neighbours inside.
interp(x, xp, fp) ==
  IF Len(xp) = 0 THEN ValueError
  ELSE IF x > xp[Len(xp)] THEN Num(fp[Len(fp)])
  ELSE IF x < xp[1] THEN Num(fp[1])
  ELSE LET j == LastAtMost(x, xp)
       IN  IF j = Len(xp) THEN Num(fp[j])
           ELSE IF xp[j] = x THEN Num(fp[j])
           ELSE LET slope == RDiv(RSub(fp[j + 1], fp[j]), <<xp[j + 1] - xp[j], 1>>)
                IN  Num(RAdd(RMul(slope, <<x - xp[j], 1>>), fp[j]))

Column(curve, name) == [i \in 1..Len(curve) |-> curve[i][name]]

discount_from_curve_lt(date, curve, val_date) ==
  LET t == year_fraction(val_date, date)
  IN  IF t < 0 THEN Num(<<1, 1>>)
      ELSE interp(t, Column(curve, "t"), Column(curve, "Discount"))

discount_from_curve(date, curve, val_date) ==
  LET t == year_fraction(val_date, date)
  IN  IF t <= 0 THEN Num(<<1, 1>>)
      ELSE interp(t, Column(curve, "t"), Column(curve, "Discount"))

HasZeroRate(p) == ~isna(p.ZeroRate)

\* curva.dropna(subset=["Zero Rate"]), then np.interp over Zero Rate / 100.
rf_zero_rate_at_maturity(maturity, curve, val_date) ==
  LET T == year_fraction(val_date, maturity)
      zero_rates == SelectSeq(curve, HasZeroRate)
  IN  IF T <= 0 THEN NaNf
      ELSE interp(T, Column(zero_rates, "t"),
                  [i \in 1..Len(zero_rates) |-> RDiv(zero_rates[i].ZeroRate[1], <<100, 1>>)])

(***************************************************************************)
(* Pricing at a flat yield and the yield solve (bonds.py 98-134).  Yields  *)
(* are rationals; a cashflow's year fraction is a whole number of years    *)
(* (its day count is a multiple of the basis), so that (1 + y) ** t is a   *)
(* rational.                                                               *)
(***************************************************************************)
Years(val_date, d) == year_fraction(val_date, d) \div Basis

\* (1 + y) ** ts
Compound(y, t) ==
  IF t >= 0 THEN RPow(RAdd(<<1, 1>>, y), t)
  ELSE RDiv(<<1, 1>>, RPow(RAdd(<<1, 1>>, y), -t))

RECURSIVE SumTo(_, _)
SumTo(terms, n) == IF n = 0 THEN <<0, 1>> ELSE RAdd(SumTo(terms, n - 1), terms[n])

\* np.sum
Sum(terms) == SumTo(terms, Len(terms))

\* The same sum with dfs = (1 + y) ** ts, the reciprocal left out.
price_given_yield_compounded(y, dates_, amounts, val_date) ==
  Sum([i \in 1..Len(dates_) |->
         RMul(amounts[i], Compound(y, Years(val_date, dates_[i])))])

\* np.sum(cf_amounts * 1 / (1 + y) ** ts)
price_given_yield(y, dates_, amounts, val_date) ==
  Sum([i \in 1..Len(dates_) |->
         RMul(amounts[i], RDiv(<<1, 1>>, Compound(y, Years(val_date, dates_[i]))))])

\* The yields the solver is observed at: steps of 1/20 from -0.10 to 0.55.
GridStep == <<1, 20>>
YieldGrid == {Rat(n, 20) : n \in -2..11}

\* The ends of the bracket handed to brentq.
BracketLo == <<-1, 20>>
BracketHi == <<1, 2>>
WideLo == <<-1, 10>>
WideHi == <<11, 20>>

InBracket(y, a, b) == RLeq(a, y) /\ RLeq(y, b)

\* scipy.optimize.brentq(f, a, b): ValueError when f(a) and f(b) have the
\* same sign, an end of the bracket where f is zero there, otherwise a point
\* of the bracket at which f is zero or next to which f changes sign (the
\* grid step stands for the solver's tolerance).
brentq(f, a, b) ==
  IF RSign(f[a]) * RSign(f[b]) > 0 THEN {ValueError}
  ELSE IF RSign(f[a]) = 0 THEN {Num(a)}
  ELSE IF RSign(f[b]) = 0 THEN {Num(b)}
  ELSE {Num(y) : y \in
         {z \in YieldGrid :
            /\ InBracket(z, a, b)
            /\ \/ RSign(f[z]) = 0
               \/ \E w \in {RAdd(z, GridStep), RSub(z, GridStep)} :
                    InBracket(w, a, b) /\ RSign(f[z]) * RSign(f[w]) < 0}}

\* f(y) = price_given_yield(y, ...) - market_price, at the yields observed.
PriceGap(market_price, dates_, amounts, val_date) ==
  [y \in YieldGrid |->
     RSub(price_given_yield(y, dates_, amounts, val_date), <<market_price, 1>>)]

\* The solve over a bracket one grid step wider at each end.
yield_to_maturity_wide(market_price, dates_, amounts, val_date) ==
  IF dates_ = <<>> THEN {NaNf}
  ELSE IF isna(market_price) THEN {NaNf}
  ELSE LET f == PriceGap(market_price[1], dates_, amounts, val_date)
       IN  {IF r = ValueError THEN NaNf ELSE r : r \in brentq(f, WideLo, WideHi)}

\* The outcomes of yield_to_maturity.  A NaN market price makes f NaN at the
\* first evaluation, on which brentq raises ValueError.
yield_to_maturity(market_price, dates_, amounts, val_date) ==
  IF dates_ = <<>> THEN {NaNf}
  ELSE IF isna(market_price) THEN {NaNf}
  ELSE LET f == PriceGap(market_price[1], dates_, amounts, val_date)
       IN  {IF r = ValueError THEN NaNf ELSE r : r \in brentq(f, BracketLo, BracketHi)}

(***************************************************************************)
(* Duration and convexity (bonds.py 160-181) and the risk record           *)
(* (bonds.py 184-234).                                                     *)
(***************************************************************************)
\* x / r for a float x and a positive rational r.
FOver(x, r) == IF x.k = "num" THEN Num(RDiv(x.v, r)) ELSE x

duration_and_convexity(market_price, dates_, amounts, y, val_date) ==
  LET ts == [i \in 1..Len(dates_) |-> Years(val_date, dates_[i])]
      pv == [i \in 1..Len(dates_) |->
               RMul(amounts[i], RDiv(<<1, 1>>, Compound(y, ts[i])))]
      onePlusY == RAdd(<<1, 1>>, y)
      D_mac == FDiv(Sum([i \in 1..Len(dates_) |-> RMul(<<ts[i], 1>>, pv[i])]),
                    <<market_price, 1>>)
      D_mod == FOver(D_mac, onePlusY)
      C == FDiv(Sum([i \in 1..Len(dates_) |->
                       RDiv(RMul(<<ts[i] * (ts[i] + 1), 1>>, pv[i]),
                            RMul(onePlusY, onePlusY))]),
                <<market_price, 1>>)
  IN  <<D_mac, D_mod, C>>

\* Lines 215-234: the record from the solved yield y and the zero rate r.
RiskRecord(y, r, market_price, dates_, amounts, val_date) ==
  LET dc == IF isnan(y) THEN <<NaNf, NaNf, NaNf>>
            ELSE duration_and_convexity(market_price[1], dates_, amounts, y.v, val_date)
  IN  [YTM |-> y, rf_rate |-> r,
       spread |-> IF isnan(y) \/ isnan(r) THEN NaNf ELSE Num(RSub(y.v, r.v)),
       Dur_Mac |-> dc[1], Dur_Mod |-> dc[2], Convexity |-> dc[3]]

\* Lines 199-209: the record of a bond with no schedule.
NoRecord ==
  [YTM |-> NaNf, rf_rate |-> NaNf, spread |-> NaNf,
   Dur_Mac |-> NaNf, Dur_Mod |-> NaNf, Convexity |-> NaNf]

\* compute_full_risk_measures after its call of build_cashflows returned.
Risk ==
  /\ pc = "built"
  /\ IF cf_dates = <<>> THEN
       /\ rec' = NoRecord
       /\ pc' = "done"
       /\ UNCHANGED <<ytm, rf>>
     ELSE
       \E y \in yield_to_maturity(row.MarketPrice, cf_dates, cf_amounts,
                                  DEFAULT_VALUATION_DATE) :
         LET r == rf_zero_rate_at_maturity(row.Maturity, curva, DEFAULT_VALUATION_DATE)
         IN  /\ ytm' = y
             /\ IF r = ValueError THEN
                  /\ pc' = "raised"
                  /\ UNCHANGED <<rf, rec>>
                ELSE
                  /\ rf' = r
                  /\ rec' = RiskRecord(y, r, row.MarketPrice, cf_dates, cf_amounts,
                                       DEFAULT_VALUATION_DATE)
                  /\ pc' = "done"
  /\ UNCHANGED <<row, curva, dt, dates, cf_dates, cf_amounts, q, res>>

(***************************************************************************)
(* The call build_cashflows(row, DEFAULT_VALUATION_DATE) on its own.       *)
(***************************************************************************)
ScheduleMaturities ==
  {NaT, <<2025, 8, 31>>, <<2025, 10, 1>>, <<2025, 11, 30>>, <<2026, 10, 1>>,
   <<2027, 8, 31>>, <<2028, 2, 29>>}

ScheduleFirstCoupons ==
  {NaT, <<2025, 4, 1>>, <<2026, 2, 28>>, <<2026, 10, 1>>, <<2027, 8, 31>>,
   <<2028, 10, 1>>}

ScheduleFrequencies == {NaN, <<-1>>, <<0>>, <<1>>, <<2>>, <<4>>, <<5>>, <<12>>, <<13>>}

Idle ==
  /\ pc = "start"
  /\ dt = NaT
  /\ dates = <<>>
  /\ cf_dates = <<>>
  /\ cf_amounts = <<>>
  /\ ytm = NaNf
  /\ rf = NaNf
  /\ rec = NoRecord
  /\ res = <<>>

InitSchedule ==
  /\ row \in [Maturity : ScheduleMaturities, FirstCoupon : ScheduleFirstCoupons,
              Frequency : ScheduleFrequencies, Coupon : {0, 5},
              MarketPrice : {NaN}, npScalar : BOOLEAN]
  /\ curva = <<>>
  /\ q = <<>>
  /\ Idle

NextSchedule == Enter \/ LoopStep \/ LoopExit

SpecSchedule == InitSchedule /\ [][NextSchedule]_vars

(***************************************************************************)
(* The call compute_full_risk_measures(row, curva).  The bonds are annual  *)
(* ones maturing on an anniversary of the valuation date, whose year       *)
(* fractions are whole, and the degenerate rows.                           *)
(***************************************************************************)
Pivot(t, discount, zero) == [t |-> t, Discount |-> discount, ZeroRate |-> zero]

RiskCurves ==
  {<<>>,
   <<Pivot(0, <<1, 1>>, NaN), Pivot(730, <<9, 10>>, NaN)>>,
   <<Pivot(365, <<97, 100>>, <<<<2, 1>>>>), Pivot(730, <<47, 50>>, <<<<3, 1>>>>)>>,
   <<Pivot(365, <<97, 100>>, NaN), Pivot(1095, <<9, 10>>, <<<<5, 2>>>>)>>}

Init ==
  /\ row \in [Maturity : {NaT, <<2025, 10, 1>>, <<2026, 10, 1>>, <<2027, 10, 1>>},
              FirstCoupon : {NaT, <<2026, 10, 1>>, <<2028, 10, 1>>},
              Frequency : {NaN, <<-1>>, <<0>>, <<1>>, <<13>>},
              Coupon : {-100, -50, 0, 5},
              MarketPrice : {NaN, <<-50>>, <<0>>, <<100>>, <<105>>, <<200>>},
              npScalar : BOOLEAN]
  /\ curva \in RiskCurves
  /\ q = <<>>
  /\ Idle

Next == Enter \/ LoopStep \/ LoopExit \/ Risk

Spec == Init /\ [][Next]_vars

(***************************************************************************)
(* The pricing functions called on their own: price_given_yield at two     *)
(* yields, and yield_to_maturity, for a schedule and a market price.       *)
(***************************************************************************)
\* Dates 365, 730 and 1095 days after the valuation date.
FlowDates == <<<<2026, 10, 1>>, <<2027, 10, 1>>, <<2028, 9, 30>>>>

FlowAmounts == {<<-50, 1>>, <<5, 2>>, <<105, 1>>}

\* The ascending sub-lists of the first MaxFlows flow dates.
FlowDateLists ==
  {sorted_ \in UNION {[1..n -> 1..MaxFlows] : n \in 0..MaxFlows} :
     \A i \in 1..(Len(sorted_) - 1) : sorted_[i] < sorted_[i + 1]}

InitPrice ==
  /\ \E idx \in FlowDateLists :
       /\ cf_dates = [i \in 1..Len(idx) |-> FlowDates[idx[i]]]
       /\ cf_amounts \in [1..Len(idx) -> FlowAmounts]
  /\ row \in [Maturity : {NaT}, FirstCoupon : {NaT}, Frequency : {NaN}, Coupon : {0},
              MarketPrice : {NaN, <<0>>, <<68>>, <<100>>, <<105>>, <<200>>},
              npScalar : {FALSE}]
  /\ curva = <<>>
  /\ pc = "start"
  /\ dt = NaT
  /\ dates = <<>>
  /\ ytm = NaNf
  /\ rf = NaNf
  /\ rec = NoRecord
  /\ q = <<>>
  /\ res = <<>>

\* price_given_yield(y1, ...) and price_given_yield(y2, ...)
PriceGivenYield ==
  /\ pc = "start"
  /\ \E y1, y2 \in YieldGrid :
       /\ q' = <<y1, y2>>
       /\ res' = <<price_given_yield(y1, cf_dates, cf_amounts, DEFAULT_VALUATION_DATE),
                   price_given_yield(y2, cf_dates, cf_amounts, DEFAULT_VALUATION_DATE)>>
  /\ pc' = "priced"
  /\ UNCHANGED <<row, curva, dt, dates, cf_dates, cf_amounts, ytm, rf, rec>>

\* yield_to_maturity(market_price, cf_dates, cf_amounts)
YieldToMaturity ==
  /\ pc = "start"
  /\ \E y \in yield_to_maturity(row.MarketPrice, cf_dates, cf_amounts,
                                 DEFAULT_VALUATION_DATE) :
       res' = y
  /\ pc' = "solved"
  /\ UNCHANGED <<row, curva, dt, dates, cf_dates, cf_amounts, ytm, rf, rec, q>>

NextPrice == PriceGivenYield \/ YieldToMaturity

SpecPrice == InitPrice /\ [][NextPrice]_vars

(***************************************************************************)
(* The curve functions called on their own, for a curve whose pivots are   *)
(* in ascending order of t (load_curva_estr sorts them) and a date.        *)
(***************************************************************************)
Pivots ==
  {Pivot(t, d, z) : t \in {0, 365, 730}, d \in {<<1, 1>>, <<9, 10>>},
                    z \in {NaN, <<<<2, 1>>>>, <<<<4, 1>>>>}}

Curves ==
  {c \in UNION {[1..n -> Pivots] : n \in 0..MaxPivots} :
     \A i \in 1..(Len(c) - 1) : c[i].t <= c[i + 1].t}

QueryDates ==
  {<<2025, 9, 30>>, <<2025, 10, 1>>, <<2025, 12, 31>>, <<2026, 10, 1>>,
   <<2027, 4, 1>>, <<2027, 10, 1>>, <<2028, 10, 1>>}

InitCurve ==
  /\ curva \in Curves
  /\ row \in [Maturity : QueryDates, FirstCoupon : {NaT}, Frequency : {NaN},
              Coupon : {0}, MarketPrice : {NaN}, npScalar : {FALSE}]
  /\ q = <<>>
  /\ Idle

\* discount_from_curve(date, curva)
DiscountFromCurve ==
  /\ pc = "start"
  /\ \E date \in QueryDates :
       /\ q' = <<date>>
       /\ res' = discount_from_curve(date, curva, DEFAULT_VALUATION_DATE)
  /\ pc' = "discounted"
  /\ UNCHANGED <<row, curva, dt, dates, cf_dates, cf_amounts, ytm, rf, rec>>

\* rf_zero_rate_at_maturity(row, curva)
RfZeroRateAtMaturity ==
  /\ pc = "start"
  /\ res' = rf_zero_rate_at_maturity(row.Maturity, curva, DEFAULT_VALUATION_DATE)
  /\ pc' = "zero_rate"
  /\ UNCHANGED <<row, curva, dt, dates, cf_dates, cf_amounts, ytm, rf, rec, q>>

NextCurve == DiscountFromCurve \/ RfZeroRateAtMaturity

SpecCurve == InitCurve /\ [][NextCurve]_vars

(***************************************************************************)
(* Claims about build_cashflows, checked under SpecSchedule.               *)
(***************************************************************************)
\* The coupon amount notional * coupon_rate_percent/100 / frequency, as a
\* test on a rational a: a = notional * coupon / (100 * freq).
IsCouponAmount(a, extra) ==
  a[1] * (100 * row.Frequency[1])
    = (Notional * row.Coupon + extra * 100 * row.Frequency[1]) * a[2]

\* C1: a non-empty schedule returned by build_cashflows has strictly
\* increasing dates, each strictly after the valuation date and not before
\* the first coupon date, as many amounts as dates, the coupon amount on every
\* entry but the last and the coupon amount plus the notional on the last.
C1_ScheduleShape ==
  (pc = "built" /\ cf_dates # <<>>) =>
    LET n == Len(cf_dates)
    IN  /\ Len(cf_amounts) = n
        /\ \A i \in 1..(n - 1) : toordinal(cf_dates[i]) < toordinal(cf_dates[i + 1])
        /\ \A i \in 1..n :
              /\ toordinal(cf_dates[i]) > toordinal(DEFAULT_VALUATION_DATE)
              /\ toordinal(cf_dates[i]) >= toordinal(row.FirstCoupon)
        /\ \A i \in 1..(n - 1) : IsCouponAmount(cf_amounts[i], 0)
        /\ IsCouponAmount(cf_amounts[n], Notional)
        /\ (row.Coupon # 0) => ~IsCouponAmount(cf_amounts[n], 0)

\* A semi-annual 5% bond whose schedule came back with three dates or more,
\* the loop having stopped at the first coupon date.
C1_Witness ==
  /\ pc = "built"
  /\ Len(cf_dates) >= 3
  /\ row.Frequency = <<2>>
  /\ row.Coupon = 5
  /\ cf_dates[1] = row.FirstCoupon

\* Strictly after the valuation date and not before the first coupon date.
Payable(d) ==
  /\ days(DEFAULT_VALUATION_DATE, d) > 0
  /\ days(row.FirstCoupon, d) >= 0

DividesTwelve(f) == f > 0 /\ 12 % f = 0

\* C10: for a bond with maturity, first coupon date and a positive frequency
\* dividing 12, the schedule is exactly the dates reached from maturity by
\* stepping back 12/frequency months up to the first one that is not strictly
\* after the valuation date or is before the first coupon date, in ascending
\* order (each date is one step back from the next, every date passes both
\* tests and the step back from the earliest fails one); it is non-empty iff
\* maturity > valuation date and maturity >= first coupon date, ends at
\* maturity, never holds the valuation date, and is empty when the first
\* coupon date is after maturity.
C10_ExactSchedule ==
  (/\ pc = "built"
   /\ ~isna(row.Frequency) /\ ~isna(row.Maturity) /\ ~isna(row.FirstCoupon)
   /\ DividesTwelve(row.Frequency[1])) =>
    LET months == 12 \div row.Frequency[1]
        n == Len(cf_dates)
    IN  /\ (n = 0) => ~Payable(row.Maturity)
        /\ (n > 0) => ~Payable(SubMonths(cf_dates[1], months))
        /\ \A i \in 1..n : Payable(cf_dates[i])
        /\ \A i \in 1..(n - 1) : cf_dates[i] = SubMonths(cf_dates[i + 1], months)
        /\ (cf_dates # <<>>) <=>
              (days(DEFAULT_VALUATION_DATE, row.Maturity) > 0
                 /\ days(row.FirstCoupon, row.Maturity) >= 0)
        /\ (cf_dates # <<>>) => cf_dates[Len(cf_dates)] = row.Maturity
        /\ \A i \in 1..Len(cf_dates) : cf_dates[i] # DEFAULT_VALUATION_DATE
        /\ (days(row.Maturity, row.FirstCoupon) > 0) => cf_dates = <<>>

\* An annual bond maturing on an anniversary of the valuation date: the step
\* back from its only date lands on the valuation date, which is left out.
C10_Witness ==
  /\ pc = "built"
  /\ row.Frequency = <<1>>
  /\ row.Maturity = <<2026, 10, 1>>
  /\ row.FirstCoupon = <<2025, 4, 1>>
  /\ cf_dates = <<row.Maturity>>
  /\ dt = DEFAULT_VALUATION_DATE

\* C5: build_cashflows terminates for every positive integer frequency, those
\* above 12 included: the backward loop never runs forever.  The loop's test
\* reads only dt and two fixed dates, so it ends iff every iteration moves dt
\* strictly back towards the valuation date.
C5_LoopMovesBack ==
  [][(pc = "loop" /\ pc' = "loop") => toordinal(dt') < toordinal(dt)]_vars

(***************************************************************************)
(* Claims about compute_full_risk_measures, checked under Spec.            *)
(***************************************************************************)
Degenerate(r) ==
  \/ isna(r.Maturity)
  \/ isna(r.FirstCoupon)
  \/ isna(r.Frequency)
  \/ r.Frequency[1] <= 0

\* C2: for a bond whose maturity, first coupon date or frequency is absent, or
\* whose frequency is zero or negative, build_cashflows returns the empty
\* schedule, compute_full_risk_measures returns the record with all six
\* fields missing, and nothing is raised.
C2_DegenerateRowsGiveEmpty ==
  Degenerate(row) =>
    /\ pc # "raised"
    /\ pc # "loop"
    /\ (pc \in {"built", "done"}) => (cf_dates = <<>> /\ cf_amounts = <<>>)
    /\ (pc = "done") => rec = NoRecord

DurationFields == {"Dur_Mac", "Dur_Mod", "Convexity"}

\* C4: in the record of a bond with a non-empty schedule, YTM is missing iff
\* the yield solve returned missing, rf_rate is missing iff the zero-rate
\* lookup returned missing, spread is missing iff YTM or rf_rate is and is
\* YTM - rf_rate otherwise, and Dur_Mac, Dur_Mod and Convexity are missing iff
\* YTM is missing.
C4_FieldMissingness ==
  (pc = "done" /\ cf_dates # <<>>) =>
    /\ rec.YTM = ytm
    /\ rec.rf_rate = rf
    /\ isnan(rec.spread) <=> (isnan(ytm) \/ isnan(rf))
    /\ ~isnan(rec.spread) =>
          /\ rec.spread.k = "num"
          /\ RAdd(rec.spread.v, rf.v) = ytm.v
    /\ \A f \in DurationFields : isnan(rec[f]) <=> isnan(ytm)

\* C8: when the market price is <= 0 or missing, the Dur_Mac, Dur_Mod and
\* Convexity fields of the record are missing: no infinite or undefined value
\* made by dividing by a zero or negative market price is carried.
C8_BadPriceGivesMissing ==
  (/\ pc = "done"
   /\ cf_dates # <<>>
   /\ (isna(row.MarketPrice) \/ row.MarketPrice[1] <= 0)) =>
    \A f \in DurationFields : isnan(rec[f])

(***************************************************************************)
(* Claims about the pricing functions, checked under SpecPrice.            *)
(***************************************************************************)
\* The sign of price_given_yield(y) - market_price.
GapSign(y) ==
  RSign(RSub(price_given_yield(y, cf_dates, cf_amounts, DEFAULT_VALUATION_DATE),
             <<row.MarketPrice[1], 1>>))

\* C3: yield_to_maturity returns missing for the empty schedule; it returns
\* missing when price_given_yield(y) - market_price has the same sign at -0.05
\* and at 0.50; and a yield it returns lies in [-0.05, 0.50].
C3_SolveOutcomes ==
  (pc = "solved") =>
    /\ (cf_dates = <<>>) => isnan(res)
    /\ (/\ cf_dates # <<>>
        /\ ~isna(row.MarketPrice)
        /\ GapSign(<<-1, 20>>) * GapSign(<<1, 2>>) > 0) => isnan(res)
    /\ ~isnan(res) =>
          /\ res.k = "num"
          /\ RLeq(<<-1, 20>>, res.v)
          /\ RLeq(res.v, <<1, 2>>)

\* A market price of 200 against a single flow of 105: the gap is negative at
\* both ends of the bracket and the solve came back missing.
C3_Witness ==
  /\ pc = "solved"
  /\ cf_dates = <<FlowDates[1]>>
  /\ cf_amounts = <<<<105, 1>>>>
  /\ row.MarketPrice = <<200>>
  /\ GapSign(<<-1, 20>>) < 0
  /\ GapSign(<<1, 2>>) < 0
  /\ isnan(res)

\* C9: for a non-empty schedule of strictly positive amounts at dates after
\* the valuation date, price_given_yield(y1) > price_given_yield(y2) for all
\* y1 < y2 in [-0.05, 0.50].
C9_StrictlyDecreasing ==
  (/\ pc = "priced"
   /\ cf_dates # <<>>
   /\ \A i \in 1..Len(cf_amounts) : cf_amounts[i][1] > 0
   /\ \A i \in 1..Len(cf_dates) : days(DEFAULT_VALUATION_DATE, cf_dates[i]) > 0
   /\ RLeq(<<-1, 20>>, q[1]) /\ RLess(q[1], q[2]) /\ RLeq(q[2], <<1, 2>>)) =>
    RLess(res[2], res[1])

\* Two positive flows priced at the two ends of the bracket.
C9_Witness ==
  /\ pc = "priced"
  /\ Len(cf_dates) = 2
  /\ cf_amounts = <<<<5, 2>>, <<105, 1>>>>
  /\ q = <<<<-1, 20>>, <<1, 2>>>>
  /\ RLess(res[2], <<105, 1>>)
  /\ RLess(<<105, 1>>, res[1])

(***************************************************************************)
(* Claims about the curve functions, checked under SpecCurve.              *)
(***************************************************************************)
\* v lies on the segment between pivots i and i + 1 of the list ps at t,
\* their values read by val(_).
OnSegment(v, t, t1, v1, t2, v2) ==
  /\ t1 < t
  /\ t < t2
  /\ RMul(v, <<t2 - t1, 1>>) = RAdd(RMul(v1, <<t2 - t, 1>>), RMul(v2, <<t - t1, 1>>))

\* C6: discount_from_curve is exactly 1 for a date on or before the valuation
\* date whatever the curve holds; for a later date and a curve with pivots it
\* is the first pivot's discount below the first t, the last pivot's above
\* the last t, a pivot's discount at that pivot's t and otherwise the point
\* at t of the segment between the two neighbouring pivots.
C6_DiscountInterpolation ==
  (pc = "discounted") =>
    LET t == days(DEFAULT_VALUATION_DATE, q[1])
        n == Len(curva)
    IN  /\ (t <= 0) => res = Num(<<1, 1>>)
        /\ (t > 0 /\ n > 0) =>
              /\ res.k = "num"
              /\ (t < curva[1].t) => res.v = curva[1].Discount
              /\ (t > curva[n].t) => res.v = curva[n].Discount
              /\ (curva[1].t <= t /\ t <= curva[n].t) =>
                    \E i \in 1..n :
                      \/ curva[i].t = t /\ res.v = curva[i].Discount
                      \/ /\ i < n
                         /\ OnSegment(res.v, t, curva[i].t, curva[i].Discount,
                                      curva[i + 1].t, curva[i + 1].Discount)

\* A date half-way between two pivots with different discounts, read as a
\* value strictly between them.
C6_Witness ==
  /\ pc = "discounted"
  /\ q = <<<<2027, 4, 1>>>>
  /\ Len(curva) = 2
  /\ curva[1].t = 365 /\ curva[1].Discount = <<1, 1>>
  /\ curva[2].t = 730 /\ curva[2].Discount = <<9, 10>>
  /\ res.k = "num"
  /\ RLess(<<9, 10>>, res.v)
  /\ RLess(res.v, <<1, 1>>)

\* The pivots of the curve that have a zero rate.
Eligible == SelectSeq(curva, HasZeroRate)

\* C7: rf_zero_rate_at_maturity returns missing when the year fraction to
\* maturity is <= 0 and when no pivot has a zero rate, raising nothing;
\* otherwise it returns zero rate / 100 interpolated over the pivots that
\* have one, flat outside their range.
C7_ZeroRateLookup ==
  (pc = "zero_rate") =>
    LET T == days(DEFAULT_VALUATION_DATE, row.Maturity)
        n == Len(Eligible)
        pct(i) == RDiv(Eligible[i].ZeroRate[1], <<100, 1>>)
    IN  /\ res # ValueError
        /\ (T <= 0) => isnan(res)
        /\ (T > 0 /\ n = 0) => isnan(res)
        /\ (T > 0 /\ n > 0) =>
              /\ res.k = "num"
              /\ (T < Eligible[1].t) => res.v = pct(1)
              /\ (T > Eligible[n].t) => res.v = pct(n)
              /\ (Eligible[1].t <= T /\ T <= Eligible[n].t) =>
                    \E i \in 1..n :
                      \/ Eligible[i].t = T /\ res.v = pct(i)
                      \/ /\ i < n
                         /\ OnSegment(res.v, T, Eligible[i].t, pct(i),
                                      Eligible[i + 1].t, pct(i + 1))

====
